---- MODULE Spec2Model ----
(***************************************************************************)
(* Model of the profileview statistics service worker                      *)
(* (src/src/view/services/statistics_worker.py): main fans out one worker  *)
(* process per object type, each worker examines its table and puts one    *)
(* payload on its queue, main folds the payloads into one report.          *)
(***************************************************************************)
EXTENDS Naturals, Integers, Sequences, FiniteSets, TLC

(***************************************************************************)
(* Bounds of the model (not program constants).                            *)
(***************************************************************************)
\* Worker processes that run at the same time: the machine dispatches the
\* started workers in start order and runs at most MaxActive of them between
\* their first and their last step, interleaved step by step with each other
\* and with main.
MaxActive == 1
\* Worker processes that may die of an uncaught exception in one run.
MaxCrashes == 1
\* analyze_change: the greatest max_length, the number of calls in a run and
\* the greatest change timestamp.
MaxLength == 2
MaxOffers == 4
MaxChange == 3
\* examine_media: the media objects in the table.
MaxMedia == 3

\* Menu actions and editor callbacks a frame handles in a run.
MaxFrameOps == 3

\* get_object_list taken alone: the greatest record count of a table.
MaxCount == 1

\* A ConfigReset taken alone: the clicks on its button and the options the
\* user changes in the configuration dialog in between.
MaxClicks == 2
MaxChanges == 1

(***************************************************************************)
(* Dictionaries: a dict is a function on its set of keys.                  *)
(***************************************************************************)
EmptyDict == <<>>

\* {k: v for k in keys}
DictOf(keys, v) == [k \in keys |-> v]

\* d.update({k: v})
Update(d, k, v) == [x \in (DOMAIN d) \cup {k} |-> IF x = k THEN v ELSE d[x]]

\* The (section, key) pairs of a two-level dict.
Entries(d) == UNION {{<<s, k>> : k \in DOMAIN d[s]} : s \in DOMAIN d}

\* fold(one, two) with the aliasing dropped: the value the dict `one` holds
\* after the call.  A section missing from one is taken whole from two; in a
\* section both have, only the subkeys missing from one are added.
fold(one, two) ==
    [key \in (DOMAIN one) \cup (DOMAIN two) |->
        IF key \notin DOMAIN one THEN two[key]
        ELSE IF key \notin DOMAIN two THEN one[key]
        ELSE [subkey \in (DOMAIN one[key]) \cup (DOMAIN two[key]) |->
                IF subkey \in DOMAIN one[key] THEN one[key][subkey]
                ELSE two[key][subkey]]]

(***************************************************************************)
(* Object types and task handlers.                                         *)
(***************************************************************************)
\* The declaration order of get_object_list.
ObjectOrder ==
    <<"Person", "Family", "Event", "Place", "Media",
      "Source", "Citation", "Repository", "Note", "Tag">>

ObjectTypes == {ObjectOrder[i] : i \in 1..Len(ObjectOrder)}

\* TASK_HANDLERS with the Tag entry copied from the Note entry.
TaskHandlersTagAsNote ==
    [ Person     |-> "examine_people",
      Family     |-> "examine_families",
      Event      |-> "examine_events",
      Place      |-> "examine_places",
      Media      |-> "examine_media",
      Source     |-> "examine_sources",
      Citation   |-> "examine_citations",
      Repository |-> "examine_repositories",
      Note       |-> "examine_notes",
      Tag        |-> "examine_notes" ]

TASK_HANDLERS ==
    [ Person     |-> "examine_people",
      Family     |-> "examine_families",
      Event      |-> "examine_events",
      Place      |-> "examine_places",
      Media      |-> "examine_media",
      Source     |-> "examine_sources",
      Citation   |-> "examine_citations",
      Repository |-> "examine_repositories",
      Note       |-> "examine_notes",
      Tag        |-> "examine_tags" ]

\* The handlers that call close_readonly_database(db) after their loop.
\* examine_media builds and puts its payload without closing.
ClosingHandlers ==
    {"examine_people", "examine_families", "examine_events", "examine_places",
     "examine_sources", "examine_citations", "examine_repositories",
     "examine_notes", "examine_tags"}

(***************************************************************************)
(* The calls made on databases.  A call is recorded with the function that *)
(* opened the database, the method and the keyword arguments.              *)
(***************************************************************************)
\* gramps.gen.db.DBMODE_R
DBMODE_R == "r"

DbCall(by, method, kwargs) == [by |-> by, method |-> method, kwargs |-> kwargs]

\* database.load(dbpath, mode=DBMODE_R, update=False)
open_readonly_database(by) ==
    {DbCall(by, "load", <<<<"mode", DBMODE_R>>, <<"update", "False">>>>)}

\* The calls of close_readonly_database up to its test of the lock file.
GetSavePath(by) == {DbCall(by, "get_save_path", <<>>)}

\* db.close(update=False)
DbClose(by) == {DbCall(by, "close", <<<<"update", "False">>>>)}

\* The methods a function calls on its database between opening and closing
\* it, probably_alive and media_path_full being the host functions the
\* database is handed to.
DbMethods ==
    [ examine_people       |-> {"get_number_of_people", "iter_people",
                                "get_event_from_handle", "probably_alive"},
      examine_families     |-> {"get_number_of_families", "surname_list",
                                "iter_families"},
      examine_events       |-> {"get_number_of_events", "iter_events"},
      examine_places       |-> {"get_number_of_places", "iter_places"},
      examine_media        |-> {"get_number_of_media", "iter_media",
                                "media_path_full"},
      examine_sources      |-> {"get_number_of_sources", "iter_sources"},
      examine_citations    |-> {"get_number_of_citations", "iter_citations"},
      examine_repositories |-> {"get_number_of_repositories",
                                "iter_repositories"},
      examine_notes        |-> {"get_number_of_notes", "iter_notes"},
      examine_tags         |-> {"get_number_of_tags", "iter_tags"},
      examine_bookmarks    |-> {"get_bookmarks", "get_family_bookmarks",
                                "get_event_bookmarks", "get_place_bookmarks",
                                "get_media_bookmarks", "get_source_bookmarks",
                                "get_citation_bookmarks", "get_repo_bookmarks",
                                "get_note_bookmarks"},
      get_object_list      |-> {"get_number_of_people", "get_number_of_families",
                                "get_number_of_events", "get_number_of_places",
                                "get_number_of_media", "get_number_of_sources",
                                "get_number_of_citations",
                                "get_number_of_repositories",
                                "get_number_of_notes", "get_number_of_tags"} ]

DbReads(by) == {DbCall(by, method, <<>>) : method \in DbMethods[by]}

(***************************************************************************)
(* Payloads.  A statistic's value is abstracted to the name of the         *)
(* producer that computed it, so a value found in the report tells whose   *)
(* it is.                                                                  *)
(***************************************************************************)
\* person.get_gender() values.
FEMALE == 0
MALE == 1
UNKNOWN == 2
\* The genders met: the three named ones and one more, which takes the
\* str(gender) prefix.
GendersSeen == {MALE, FEMALE, UNKNOWN, UNKNOWN + 1}

\* The counters get_gender_stats creates for a gender.
GenderStats ==
    {"total", "private", "tagged", "uncited",
     "births_missing", "births_missing_date", "births_missing_place",
     "births_uncited", "births_private",
     "deaths_missing", "deaths_missing_date", "deaths_missing_place",
     "deaths_uncited", "deaths_private",
     "living", "living_not_private"}

GenderPrefix(gender) ==
    IF gender = MALE THEN "male_"
    ELSE IF gender = FEMALE THEN "female_"
    ELSE IF gender = UNKNOWN THEN "unknown_"
    ELSE ToString(gender) \o "_"

\* The section a gender counter goes to: the first of "uncited", "private",
\* "tagged" that occurs in the counter's name (no prefix contains one).
GenderIndex(key) ==
    IF key \in {"uncited", "births_uncited", "deaths_uncited"} THEN "uncited"
    ELSE IF key \in {"private", "births_private", "deaths_private",
                     "living_not_private"} THEN "privacy"
    ELSE IF key = "tagged" THEN "tag"
    ELSE "person"

\* for gender in gender_stats: for (key, value) in ...:
\*     payload[index].update({new_key: value})
\* Every update writes a value of this producer, so the order of the turns
\* does not show in the result.
GenderLoop(payload, v) ==
    LET new_keys(index) ==
            {GenderPrefix(gender) \o key :
                gender \in GendersSeen,
                key \in {k \in GenderStats : GenderIndex(k) = index}}
    IN  [index \in DOMAIN payload |->
            [k \in (DOMAIN payload[index]) \cup new_keys(index) |->
                IF k \in new_keys(index) THEN v ELSE payload[index][k]]]

PeoplePayload(v) ==
    LET payload ==
            [ changed |-> DictOf({"Person"}, v),
              person  |-> DictOf({"person_total", "person_incomplete_names",
                                  "person_no_family_connection"}, v),
              media   |-> DictOf({"person_media", "person_media_refs"}, v),
              uncited |-> EmptyDict,
              privacy |-> EmptyDict,
              tag     |-> EmptyDict ]
        append ==
            [ association |-> DictOf({"association_total", "association_refs",
                                      "association_roles"}, v),
              participant |-> DictOf({"participant_total", "participant_refs",
                                      "participant_roles"}, v),
              uncited     |-> DictOf({"association_uncited"}, v),
              privacy     |-> DictOf({"association_private",
                                      "participant_private"}, v) ]
    IN  fold(GenderLoop(payload, v), append)

\* examine_families with its participant_private counter under the key
\* examine_people uses.
FamiliesPayloadShared(v) ==
    [ changed     |-> DictOf({"Family"}, v),
      family      |-> DictOf({"family_total", "family_surname_total",
                              "family_missing_one", "family_missing_both",
                              "family_no_child", "family_relations",
                              "family_no_events"}, v),
      uncited     |-> DictOf({"family_uncited", "child_uncited"}, v),
      privacy     |-> DictOf({"family_private", "child_private",
                              "participant_private"}, v),
      tag         |-> DictOf({"family_tagged"}, v),
      children    |-> DictOf({"child_refs", "child_mother_relations",
                              "child_father_relations"}, v),
      participant |-> DictOf({"family_participant_roles"}, v),
      media       |-> DictOf({"family_media", "family_media_refs"}, v) ]

FamiliesPayload(v) ==
    [ changed     |-> DictOf({"Family"}, v),
      family      |-> DictOf({"family_total", "family_surname_total",
                              "family_missing_one", "family_missing_both",
                              "family_no_child", "family_relations",
                              "family_no_events"}, v),
      uncited     |-> DictOf({"family_uncited", "child_uncited"}, v),
      privacy     |-> DictOf({"family_private", "child_private",
                              "family_participant_private"}, v),
      tag         |-> DictOf({"family_tagged"}, v),
      children    |-> DictOf({"child_refs", "child_mother_relations",
                              "child_father_relations"}, v),
      participant |-> DictOf({"family_participant_roles"}, v),
      media       |-> DictOf({"family_media", "family_media_refs"}, v) ]

EventsPayload(v) ==
    [ changed |-> DictOf({"Event"}, v),
      event   |-> DictOf({"event_total", "event_no_place", "event_no_date",
                          "event_no_description", "event_types"}, v),
      uncited |-> DictOf({"event_uncited"}, v),
      privacy |-> DictOf({"event_private"}, v),
      tag     |-> DictOf({"event_tagged"}, v),
      media   |-> DictOf({"event_media", "event_media_refs"}, v) ]

PlacesPayload(v) ==
    [ changed |-> DictOf({"Place"}, v),
      place   |-> DictOf({"place_total", "place_no_name", "place_no_latitude",
                          "place_no_longitude", "place_no_code",
                          "place_types"}, v),
      uncited |-> DictOf({"place_uncited"}, v),
      privacy |-> DictOf({"place_private"}, v),
      tag     |-> DictOf({"place_tagged"}, v),
      media   |-> DictOf({"place_media", "place_media_refs"}, v) ]

MediaPayload(v) ==
    [ changed |-> DictOf({"Media"}, v),
      media   |-> DictOf({"media_total", "media_size", "media_no_path",
                          "media_not_found", "media_no_description",
                          "media_no_date", "media_no_mime"}, v),
      uncited |-> DictOf({"media_uncited"}, v),
      privacy |-> DictOf({"media_private"}, v),
      tag     |-> DictOf({"media_tagged"}, v) ]

SourcesPayload(v) ==
    [ changed |-> DictOf({"Source"}, v),
      source  |-> DictOf({"source_total", "source_no_title",
                          "source_no_author", "source_no_pubinfo",
                          "source_no_abbrev", "source_no_repository"}, v),
      privacy |-> DictOf({"source_private"}, v),
      tag     |-> DictOf({"source_tagged"}, v),
      media   |-> DictOf({"source_media", "source_media_refs"}, v) ]

CitationsPayload(v) ==
    [ changed  |-> DictOf({"Citation"}, v),
      citation |-> DictOf({"citation_total", "citation_no_source",
                           "citation_no_date", "citation_no_page",
                           "citation_very_low", "citation_low",
                           "citation_normal", "citation_high",
                           "citation_very_high"}, v),
      privacy  |-> DictOf({"citation_private"}, v),
      tag      |-> DictOf({"citation_tagged"}, v),
      media    |-> DictOf({"citation_media", "citation_media_refs"}, v) ]

RepositoriesPayload(v) ==
    [ changed    |-> DictOf({"Repository"}, v),
      repository |-> DictOf({"repository_total", "repository_no_name",
                             "repository_no_address", "repository_types"}, v),
      privacy    |-> DictOf({"repository_private"}, v),
      tag        |-> DictOf({"repository_tagged"}, v) ]

NotesPayload(v) ==
    [ changed |-> DictOf({"Note"}, v),
      note    |-> DictOf({"note_total", "note_no_text", "note_types"}, v),
      privacy |-> DictOf({"note_private"}, v),
      tag     |-> DictOf({"note_tagged"}, v) ]

TagsPayload(v) ==
    [ changed |-> DictOf({"Tag"}, v),
      tag     |-> DictOf({"tag_total"}, v) ]

BookmarksPayload(v) ==
    [ bookmarks |-> DictOf({"bookmarks_person", "bookmarks_family",
                            "bookmarks_event", "bookmarks_place",
                            "bookmarks_media", "bookmarks_source",
                            "bookmarks_citation", "bookmarks_repository",
                            "bookmarks_note"}, v) ]

\* The handlers that build a payload.
Producers == {TASK_HANDLERS[t] : t \in ObjectTypes} \cup {"examine_bookmarks"}

\* The payload each handler builds; every value in it is the handler's own.
Payloads ==
    [handler \in Producers |->
    CASE handler = "examine_people"       -> PeoplePayload(handler)
      [] handler = "examine_families"     -> FamiliesPayload(handler)
      [] handler = "examine_events"       -> EventsPayload(handler)
      [] handler = "examine_places"       -> PlacesPayload(handler)
      [] handler = "examine_media"        -> MediaPayload(handler)
      [] handler = "examine_sources"      -> SourcesPayload(handler)
      [] handler = "examine_citations"    -> CitationsPayload(handler)
      [] handler = "examine_repositories" -> RepositoriesPayload(handler)
      [] handler = "examine_notes"        -> NotesPayload(handler)
      [] handler = "examine_tags"         -> TagsPayload(handler)
      [] handler = "examine_bookmarks"    -> BookmarksPayload(handler)]

\* payload = {...} in the handler.
Payload(handler) == Payloads[handler]

(***************************************************************************)
(* get_object_list: the ten types by descending record count.              *)
(***************************************************************************)
RECURSIVE SumCounts(_, _)
SumCounts(counts, i) ==
    IF i = 0 THEN 0 ELSE counts[ObjectOrder[i]] + SumCounts(counts, i - 1)

Position(obj_type) == CHOOSE i \in 1..Len(ObjectOrder) : ObjectOrder[i] = obj_type

\* The trees a run may meet, as get_object_list counts them: an empty tree
\* (the list keeps the declaration order) and a tree whose counts rise along
\* the declaration order (the list is turned round).
Trees ==
    { [t \in ObjectTypes |-> 0],
      [t \in ObjectTypes |-> Position(t)] }

RECURSIVE InsertDescTiesTurned(_, _, _)
\* A descending sort that turns equal counts round, as sorting ascending and
\* reversing the list does.
InsertDescTiesTurned(sorted, x, counts) ==
    IF sorted = <<>> THEN <<x>>
    ELSE IF counts[Head(sorted)] > counts[x]
         THEN <<Head(sorted)>> \o InsertDescTiesTurned(Tail(sorted), x, counts)
         ELSE <<x>> \o sorted

RECURSIVE InsertDesc(_, _, _)
\* list.sort(key=count, reverse=True) is stable: x goes behind every entry
\* whose count is not smaller than its own.
InsertDesc(sorted, x, counts) ==
    IF sorted = <<>> THEN <<x>>
    ELSE IF counts[Head(sorted)] >= counts[x]
         THEN <<Head(sorted)>> \o InsertDesc(Tail(sorted), x, counts)
         ELSE <<x>> \o sorted

RECURSIVE SortDesc(_, _)
SortDesc(n, counts) ==
    IF n = 0 THEN <<>>
    ELSE InsertDesc(SortDesc(n - 1, counts), ObjectOrder[n], counts)

get_object_list(counts) ==
    [ total |-> SumCounts(counts, Len(ObjectOrder)),
      names |-> SortDesc(Len(ObjectOrder), counts) ]

\* obj_list.reverse()
RECURSIVE Reverse(_)
Reverse(seq) ==
    IF seq = <<>> THEN <<>> ELSE Reverse(Tail(seq)) \o <<Head(seq)>>

(***************************************************************************)
(* analyze_change: the last-changed list of a table.  Lists are indexed    *)
(* from 0 in the source and from 1 here.                                   *)
(***************************************************************************)
RECURSIVE bisect_left(_, _, _, _)
\* bisect_left: the first index lo..hi behind every entry whose change is
\* less than x.
bisect_left(a, x, lo, hi) ==
    IF lo < hi
    THEN LET mid == (lo + hi) \div 2
         IN  IF x <= a[mid + 1][2]
             THEN bisect_left(a, x, lo, mid)
             ELSE bisect_left(a, x, mid + 1, hi)
    ELSE lo

RECURSIVE bisect(_, _, _, _)
\* bisect(KeyWrapper(obj_list, key=lambda c: c[1]), change) is bisect_right
\* on the change of each entry: the first index lo..hi behind every entry
\* whose change is not greater than x.
bisect(a, x, lo, hi) ==
    IF lo < hi
    THEN LET mid == (lo + hi) \div 2
         IN  IF x < a[mid + 1][2]
             THEN bisect(a, x, lo, mid)
             ELSE bisect(a, x, mid + 1, hi)
    ELSE lo

\* list.insert(index, item)
insert(list, index, item) ==
    SubSeq(list, 1, index) \o <<item>> \o SubSeq(list, index + 1, Len(list))

\* list.pop(index), for the list that is left
pop(list, index) ==
    SubSeq(list, 1, index) \o SubSeq(list, index + 2, Len(list))

\* analyze_change without the length test: the list only grows.
AnalyzeChangeKeepsAll(obj_list, obj_handle, change, max_len) ==
    LET bsindex == bisect(obj_list, change, 0, Len(obj_list))
    IN  insert(obj_list, bsindex, <<obj_handle, change>>)

\* obj_list after analyze_change(obj_list, obj_handle, change, max_length)
analyze_change(obj_list, obj_handle, change, max_len) ==
    LET bsindex == bisect(obj_list, change, 0, Len(obj_list))
        inserted == insert(obj_list, bsindex, <<obj_handle, change>>)
    IN  IF Len(inserted) > max_len
        THEN pop(inserted, max_len)
        ELSE inserted

(***************************************************************************)
(* State.                                                                  *)
(***************************************************************************)
VARIABLES
    pc,          \* main's position
    total,       \* main: total returned by get_object_list
    obj_list,    \* main: the list of object types
    idx,         \* main: position of the running for loop in obj_list
    workers,     \* main: dict object type -> process (index into procs)
    queues,      \* main: dict object type -> queue (index into chan)
    procs,       \* every Process created: target, queue, state, save_dir, db
    chan,        \* every Queue created: the payloads in it
    main_db,     \* main has a database open
    main_save_dir, \* save_dir of main's running close_readonly_database
    lock,        \* the lock file exists in the tree's save directory
    lock0,       \* ... and did when the run started
    facts,       \* main: the report being folded
    result_set,  \* main: the payload last taken from a queue
    out,         \* reports written to standard output
    err,         \* messages written to standard error
    status,      \* exit status of main, -1 while it runs
    trace,       \* main's starts, gets, joins and reports, in order
    sent,        \* per Queue created: the processes that put on it, in order
    db_calls,    \* the calls made on databases so far
    max_length,  \* analyze_change: the max_length of the run
    last_changed, \* analyze_change: the list the calls work on
    offered,     \* analyze_change: the (handle, change) pairs offered so far
    media_run,   \* examine_media: the table, the files and the locals of a run
    frame,       \* a PrimaryGrampsFrame, its object, the database and the dialogs
    reset,       \* a ConfigReset: the configuration and the dialogs
    call         \* a call of a function taken alone: its arguments and result

vars == <<pc, total, obj_list, idx, workers, queues, procs, chan, main_db,
          main_save_dir, lock, lock0, facts, result_set, out, err, status, trace,
          sent, db_calls, max_length, last_changed, offered, media_run, frame,
          reset, call>>

\* The state of the parts of the program taken alone: runs of
\* analyze_change, of examine_media, of a frame, of a ConfigReset and of
\* single function calls.
changevars == <<max_length, last_changed, offered>>

unitvars == <<changevars, media_run, frame, reset, call>>

NoMediaRun == [at |-> "none"]

NoFrame == [at |-> "none"]

NoReset == [at |-> "none"]

NoCall == [at |-> "none"]

ChangeIdle ==
    /\ max_length = 0
    /\ last_changed = <<>>
    /\ offered = <<>>

MediaIdle == media_run = NoMediaRun

FrameIdle == frame = NoFrame

ResetIdle == reset = NoReset

CallIdle == call = NoCall

UnitsIdle == ChangeIdle /\ MediaIdle /\ FrameIdle /\ ResetIdle /\ CallIdle

\* The state of a run of main and its workers.
PipelineIdle ==
    /\ pc = "none"
    /\ total = 0
    /\ obj_list = <<>>
    /\ idx = 0
    /\ workers = EmptyDict
    /\ queues = EmptyDict
    /\ procs = <<>>
    /\ chan = <<>>
    /\ main_db = FALSE
    /\ main_save_dir = FALSE
    /\ lock = FALSE
    /\ lock0 = FALSE
    /\ facts = EmptyDict
    /\ result_set = EmptyDict
    /\ out = <<>>
    /\ err = <<>>
    /\ status = -1
    /\ trace = <<>>
    /\ sent = <<>>
    /\ db_calls = {}

pipelinevars == <<pc, total, obj_list, idx, workers, queues, procs, chan, main_db,
                  main_save_dir, lock, lock0, facts, result_set, out, err, status,
                  trace, sent, db_calls>>

mainvars == <<pc, total, obj_list, idx, workers, queues, main_db, main_save_dir,
              facts, result_set, out, err, status, trace>>

ActiveStates == {"closing", "locking", "put"}

Active == {p \in DOMAIN procs : procs[p].state \in ActiveStates}

Crashed == {p \in DOMAIN procs : procs[p].state = "crashed"}

Init ==
    /\ pc = "get_object_list"
    /\ total = 0
    /\ obj_list = <<>>
    /\ idx = 0
    /\ workers = EmptyDict
    /\ queues = EmptyDict
    /\ procs = <<>>
    /\ chan = <<>>
    /\ main_db = FALSE
    /\ main_save_dir = FALSE
    /\ lock \in BOOLEAN
    /\ lock0 = lock
    /\ facts = EmptyDict
    /\ result_set = EmptyDict
    /\ out = <<>>
    /\ err = <<>>
    /\ status = -1
    /\ trace = <<>>
    /\ sent = <<>>
    /\ db_calls = {}
    /\ UnitsIdle

(***************************************************************************)
(* close_readonly_database run without interruption: the lock file after   *)
(* it, given whether it existed before.                                    *)
(***************************************************************************)
close_readonly_database(locked) ==
    LET save_dir == locked        \* os.path.isfile(save_dir/DBLOCKFN)
        closed == FALSE           \* db.close(update=False) deletes the lock
    IN  IF save_dir THEN TRUE     \* write_lock_file(save_dir)
        ELSE closed

(***************************************************************************)
(* main.                                                                   *)
(***************************************************************************)
\* A main that prints the error and goes on without a tree.
MainGetObjectListGoesOn ==
    /\ pc = "get_object_list"
    /\ \E tree_found \in BOOLEAN :
         IF tree_found
         THEN \E counts \in Trees :
                /\ total' = get_object_list(counts).total
                /\ obj_list' = get_object_list(counts).names
                /\ lock' = close_readonly_database(lock)
                /\ idx' = 1
                /\ pc' = "start"
                /\ db_calls' = db_calls \cup open_readonly_database("get_object_list")
                                        \cup DbReads("get_object_list")
                                        \cup GetSavePath("get_object_list")
                                        \cup DbClose("get_object_list")
                /\ UNCHANGED <<err, status>>
         ELSE /\ err' = Append(err, "Error: Problem finding and loading tree")
              /\ pc' = "report"
              /\ UNCHANGED <<total, obj_list, lock, idx, db_calls, status>>
    /\ UNCHANGED <<unitvars, workers, queues, procs, chan, main_db, main_save_dir, lock0,
                   facts, result_set, out, trace, sent>>

\* try: total, obj_list = get_object_list(args.tree_name) except TypeError.
\* No other process exists yet, so the open, count, close of
\* get_object_list is one step.
MainGetObjectList ==
    /\ pc = "get_object_list"
    /\ \E tree_found \in BOOLEAN :
         IF tree_found
         THEN \E counts \in Trees :
                /\ total' = get_object_list(counts).total
                /\ obj_list' = get_object_list(counts).names
                /\ lock' = close_readonly_database(lock)
                /\ idx' = 1
                /\ pc' = "start"
                /\ db_calls' = db_calls \cup open_readonly_database("get_object_list")
                                        \cup DbReads("get_object_list")
                                        \cup GetSavePath("get_object_list")
                                        \cup DbClose("get_object_list")
                /\ UNCHANGED <<err, status>>
         ELSE /\ err' = Append(err, "Error: Problem finding and loading tree")
              /\ status' = 1
              /\ pc' = "exited"
              /\ UNCHANGED <<total, obj_list, lock, idx, db_calls>>
    /\ UNCHANGED <<unitvars, workers, queues, procs, chan, main_db, main_save_dir, lock0,
                   facts, result_set, out, trace, sent>>

\* One turn of: for obj_type in obj_list: queues[..] = Queue();
\* workers[..] = Process(target=TASK_HANDLERS[..], args=(args, queues[..]));
\* workers[..].start()
MainStart ==
    /\ pc = "start"
    /\ LET obj_type == obj_list[idx]
           queue == Len(chan) + 1
           process == Len(procs) + 1
       IN  /\ chan' = Append(chan, <<>>)
           /\ queues' = Update(queues, obj_type, queue)
           /\ procs' = Append(procs, [ target   |-> TASK_HANDLERS[obj_type],
                                       queue    |-> queues'[obj_type],
                                       state    |-> "started",
                                       save_dir |-> FALSE,
                                       db       |-> FALSE ])
           /\ workers' = Update(workers, obj_type, process)
           /\ trace' = Append(trace, <<"start", process, obj_type>>)
           /\ sent' = Append(sent, <<>>)
    /\ IF idx < Len(obj_list)
       THEN idx' = idx + 1 /\ pc' = pc
       ELSE idx' = 0 /\ pc' = "bookmarks"
    /\ UNCHANGED <<unitvars, db_calls, total, obj_list, main_db, main_save_dir, lock, lock0, facts,
                   result_set, out, err, status>>

\* examine_bookmarks: db = open_readonly_database(..), the bookmark counts
\* and the payload, none of which another process can see, and the first
\* step of close_readonly_database on a shared file: the isfile test.
MainBookmarksOpen ==
    /\ pc = "bookmarks"
    /\ main_db' = TRUE
    /\ main_save_dir' = lock
    /\ pc' = "bookmarks_close"
    /\ db_calls' = db_calls \cup open_readonly_database("examine_bookmarks")
                            \cup DbReads("examine_bookmarks")
                            \cup GetSavePath("examine_bookmarks")
    /\ UNCHANGED <<unitvars, total, obj_list, idx, workers, queues, procs, chan,
                   lock, lock0, facts, result_set, out, err,
                   status, trace, sent>>

\* close_readonly_database in main: db.close(update=False) deletes the
\* lock file.
MainBookmarksClose ==
    /\ pc = "bookmarks_close"
    /\ main_db' = FALSE
    /\ lock' = FALSE
    /\ pc' = "bookmarks_lock"
    /\ db_calls' = db_calls \cup DbClose("examine_bookmarks")
    /\ UNCHANGED <<unitvars, total, obj_list, idx, workers, queues, procs, chan,
                   main_save_dir, lock0, facts, result_set, out, err, status,
                   trace, sent>>

\* close_readonly_database in main: write_lock_file if the test found the
\* lock; then facts = the returned payload and obj_list.reverse().
MainBookmarksLock ==
    /\ pc = "bookmarks_lock"
    /\ lock' = IF main_save_dir THEN TRUE ELSE lock
    /\ main_save_dir' = FALSE
    /\ facts' = Payload("examine_bookmarks")
    /\ obj_list' = Reverse(obj_list)
    /\ idx' = 1
    /\ pc' = "get"
    /\ UNCHANGED <<unitvars, db_calls, total, workers, queues, procs, chan, main_db, lock0,
                   result_set, out, err, status, trace, sent>>

\* The get loop reading the queue of the first object type in every turn.
MainGetFirstQueue ==
    /\ pc = "get"
    /\ LET queue == queues[obj_list[1]]
       IN  /\ chan[queue] # <<>>
           /\ result_set' = Head(chan[queue])
           /\ chan' = [chan EXCEPT ![queue] = Tail(@)]
           /\ trace' = Append(trace, <<"get", queue, obj_list[idx]>>)
    /\ pc' = "join"
    /\ UNCHANGED <<unitvars, db_calls, total, obj_list, idx, workers, queues, procs, main_db,
                   main_save_dir, lock, lock0, facts, out, err, status, sent>>

\* A get that gives up on the queue of a worker that has died.
MainGetGivesUp ==
    /\ pc = "get"
    /\ LET queue == queues[obj_list[idx]]
       IN  IF procs[workers[obj_list[idx]]].state = "crashed"
           THEN /\ result_set' = EmptyDict
                /\ UNCHANGED <<chan, trace>>
           ELSE /\ chan[queue] # <<>>
                /\ result_set' = Head(chan[queue])
                /\ chan' = [chan EXCEPT ![queue] = Tail(@)]
                /\ trace' = Append(trace, <<"get", queue, obj_list[idx]>>)
    /\ pc' = "join"
    /\ UNCHANGED <<unitvars, db_calls, total, obj_list, idx, workers, queues, procs, main_db,
                   main_save_dir, lock, lock0, facts, out, err, status, sent>>

\* result_set = queues[obj_type].get(): blocks while the queue is empty.
MainGet ==
    /\ pc = "get"
    /\ LET queue == queues[obj_list[idx]]
       IN  /\ chan[queue] # <<>>
           /\ result_set' = Head(chan[queue])
           /\ chan' = [chan EXCEPT ![queue] = Tail(@)]
           /\ trace' = Append(trace, <<"get", queue, obj_list[idx]>>)
    /\ pc' = "join"
    /\ UNCHANGED <<unitvars, db_calls, total, obj_list, idx, workers, queues, procs, main_db,
                   main_save_dir, lock, lock0, facts, out, err, status, sent>>

\* The get loop leaving out the last object type.
MainJoinEndsEarly ==
    /\ pc = "join"
    /\ procs[workers[obj_list[idx]]].state \in {"exited", "crashed"}
    /\ trace' = Append(trace, <<"join", workers[obj_list[idx]], obj_list[idx]>>)
    /\ facts' = fold(facts, result_set)
    /\ IF idx + 1 < Len(obj_list)
       THEN idx' = idx + 1 /\ pc' = "get"
       ELSE idx' = 0 /\ pc' = "report"
    /\ UNCHANGED <<unitvars, db_calls, total, obj_list, workers, queues, procs, chan, main_db,
                   main_save_dir, lock, lock0, result_set, out, err, status,
                   sent>>

\* workers[obj_type].join() blocks until the process has ended; then
\* fold(facts, result_set) and the next turn of the loop.
MainJoin ==
    /\ pc = "join"
    /\ procs[workers[obj_list[idx]]].state \in {"exited", "crashed"}
    /\ trace' = Append(trace, <<"join", workers[obj_list[idx]], obj_list[idx]>>)
    /\ facts' = fold(facts, result_set)
    /\ IF idx < Len(obj_list)
       THEN idx' = idx + 1 /\ pc' = "get"
       ELSE idx' = 0 /\ pc' = "report"
    /\ UNCHANGED <<unitvars, db_calls, total, obj_list, workers, queues, procs, chan, main_db,
                   main_save_dir, lock, lock0, result_set, out, err, status,
                   sent>>

\* The report: yaml.dump(facts) if --yaml was given and yaml can be
\* imported, a message on standard error if it cannot, pickle.dumps(facts)
\* without --yaml.
MainReport ==
    /\ pc = "report"
    /\ \E yaml \in BOOLEAN :
         IF yaml
         THEN \E yaml_available \in BOOLEAN :
                IF yaml_available
                THEN /\ out' = Append(out, [format |-> "yaml", facts |-> facts])
                     /\ trace' = Append(trace, <<"report", 0, "yaml">>)
                     /\ err' = err
                ELSE /\ err' = Append(err, "YAML support not available")
                     /\ UNCHANGED <<out, trace>>
         ELSE /\ out' = Append(out, [format |-> "pickle", facts |-> facts])
              /\ trace' = Append(trace, <<"report", 0, "pickle">>)
              /\ err' = err
    /\ pc' = "exit"
    /\ UNCHANGED <<unitvars, db_calls, total, obj_list, idx, workers, queues, procs, chan, main_db,
                   main_save_dir, lock, lock0, facts, result_set, status, sent>>

\* sys.exit(0)
MainExit ==
    /\ pc = "exit"
    /\ status' = 0
    /\ pc' = "exited"
    /\ UNCHANGED <<unitvars, db_calls, total, obj_list, idx, workers, queues, procs, chan, main_db,
                   main_save_dir, lock, lock0, facts, result_set, out, err,
                   trace, sent>>

(***************************************************************************)
(* The worker processes: examine_*(args, queue).                           *)
(*                                                                         *)
(* A step of a worker ends where the next thing it does is on something    *)
(* shared with a step of another process that can come in between: the     *)
(* lock file.  Building the payload is local, and queue.put is on the      *)
(* worker's own queue, which only main's get reads and which waits for it: *)
(* both belong to the step of the statement before them.                   *)
(***************************************************************************)
\* A handler that puts its payload twice.
QueuePutTwice(p) ==
    /\ chan' = [chan EXCEPT ![procs[p].queue] =
                    Append(Append(@, Payload(procs[p].target)),
                           Payload(procs[p].target))]
    /\ sent' = [sent EXCEPT ![procs[p].queue] = Append(Append(@, p), p)]

\* queue.put(payload), the payload being the dict the handler has built.
queue_put(p) ==
    /\ chan' = [chan EXCEPT ![procs[p].queue] = Append(@, Payload(procs[p].target))]
    /\ sent' = [sent EXCEPT ![procs[p].queue] = Append(@, p)]

\* The process is dispatched and runs up to its first step on something
\* shared: db = open_readonly_database(args.tree_name), the loop over the
\* table and, in the handlers that close, the isfile test of
\* close_readonly_database; examine_media, which does not close, goes on to
\* its put.
WorkerExamine(p) ==
    /\ procs[p].state = "started"
    /\ \A q \in 1..(p - 1) : procs[q].state # "started"
    /\ Cardinality(Active) < MaxActive
    /\ IF procs[p].target \in ClosingHandlers
       THEN /\ procs' = [procs EXCEPT ![p].db = TRUE,
                                      ![p].save_dir = lock,
                                      ![p].state = "closing"]
            /\ db_calls' = db_calls \cup open_readonly_database(procs[p].target)
                                    \cup DbReads(procs[p].target)
                                    \cup GetSavePath(procs[p].target)
            /\ UNCHANGED <<chan, sent>>
       ELSE /\ procs' = [procs EXCEPT ![p].db = TRUE, ![p].state = "put"]
            /\ db_calls' = db_calls \cup open_readonly_database(procs[p].target)
                                    \cup DbReads(procs[p].target)
            /\ queue_put(p)
    /\ UNCHANGED <<unitvars, mainvars, lock, lock0>>

\* The process is dispatched, opens the database and dies in the loop of
\* an exception nothing catches.
WorkerCrash(p) ==
    /\ procs[p].state = "started"
    /\ \A q \in 1..(p - 1) : procs[q].state # "started"
    /\ Cardinality(Active) < MaxActive
    /\ Cardinality(Crashed) < MaxCrashes
    /\ procs' = [procs EXCEPT ![p].db = TRUE, ![p].state = "crashed"]
    /\ db_calls' = db_calls \cup open_readonly_database(procs[p].target)
                            \cup DbReads(procs[p].target)
    /\ UNCHANGED <<unitvars, mainvars, chan, lock, lock0, sent>>

\* close_readonly_database: db.close(update=False) deletes the lock file;
\* the test having found no lock, the handler goes on to its put.
WorkerClose(p) ==
    /\ procs[p].state = "closing"
    /\ lock' = FALSE
    /\ IF procs[p].save_dir
       THEN /\ procs' = [procs EXCEPT ![p].db = FALSE, ![p].state = "locking"]
            /\ UNCHANGED <<chan, sent>>
       ELSE /\ procs' = [procs EXCEPT ![p].db = FALSE, ![p].state = "put"]
            /\ queue_put(p)
    /\ db_calls' = db_calls \cup DbClose(procs[p].target)
    /\ UNCHANGED <<unitvars, mainvars, lock0>>

\* close_readonly_database: write_lock_file(save_dir), the test having
\* found the lock; then the put.
WorkerLock(p) ==
    /\ procs[p].state = "locking"
    /\ lock' = TRUE
    /\ procs' = [procs EXCEPT ![p].state = "put", ![p].save_dir = FALSE]
    /\ queue_put(p)
    /\ UNCHANGED <<unitvars, db_calls, mainvars, lock0>>

\* The handler returns and the process ends.
WorkerExit(p) ==
    /\ procs[p].state = "put"
    /\ procs' = [procs EXCEPT ![p].state = "exited"]
    /\ UNCHANGED <<unitvars, db_calls, mainvars, chan, lock, lock0, sent>>

Main ==
    \/ MainGetObjectList
    \/ MainStart
    \/ MainBookmarksOpen
    \/ MainBookmarksClose
    \/ MainBookmarksLock
    \/ MainGet
    \/ MainJoin
    \/ MainReport
    \/ MainExit

Next ==
    \/ Main
    \/ \E p \in DOMAIN procs : WorkerExamine(p)
    \/ \E p \in DOMAIN procs : WorkerCrash(p)
    \/ \E p \in DOMAIN procs : WorkerClose(p)
    \/ \E p \in DOMAIN procs : WorkerLock(p)
    \/ \E p \in DOMAIN procs : WorkerExit(p)

Spec == Init /\ [][Next]_vars

\* A worker that does not die: its steps but for WorkerCrash.
WorkerRuns(p) ==
    \/ WorkerExamine(p)
    \/ WorkerClose(p)
    \/ WorkerLock(p)
    \/ WorkerExit(p)

\* The runs in which no worker dies.
FairNext ==
    \/ Main
    \/ \E p \in DOMAIN procs : WorkerExamine(p)
    \/ \E p \in DOMAIN procs : WorkerClose(p)
    \/ \E p \in DOMAIN procs : WorkerLock(p)
    \/ \E p \in DOMAIN procs : WorkerExit(p)

\* The runs in which no worker dies and the scheduler lets main, and some
\* worker that can take a step, take it.
FairSpec ==
    /\ Init
    /\ [][FairNext]_vars
    /\ WF_vars(Main)
    /\ WF_vars(\E p \in DOMAIN procs : WorkerRuns(p))

(***************************************************************************)
(* Properties of a run of main.                                            *)
(***************************************************************************)
\* The tree was loaded: get_object_list returned.
TreeLoaded == obj_list # <<>>

\* The start loop has ended.
AllStarted == TreeLoaded /\ pc \notin {"get_object_list", "start"}

\* The processes created to run the handler of an object type.
WorkersOf(obj_type) ==
    {p \in DOMAIN procs : procs[p].target = TASK_HANDLERS[obj_type]}

\* The positions of trace where main did `what` to the object `n` (a process or
\* a queue).
Events(what, n) ==
    {i \in DOMAIN trace : trace[i][1] = what /\ trace[i][2] = n}

Reports == {i \in DOMAIN trace : trace[i][1] = "report"}

\* C1: main starts exactly one worker process for each of the ten object
\* types, each with a queue of its own: no type lacks a worker once the start
\* loop has ended, no type ever has two, no process is started twice, and no
\* two processes are given the same queue.
C1_OneWorkerPerType ==
    /\ \A t \in ObjectTypes : Cardinality(WorkersOf(t)) <= 1
    /\ \A p \in DOMAIN procs : Cardinality(Events("start", p)) = 1
    /\ \A p \in DOMAIN procs :
         \A q \in 1..(p - 1) : procs[p].queue # procs[q].queue
    /\ AllStarted =>
         /\ DOMAIN workers = ObjectTypes
         /\ DOMAIN queues = ObjectTypes
         /\ \A t \in ObjectTypes :
              /\ WorkersOf(t) = {workers[t]}
              /\ procs[workers[t]].queue = queues[t]
              /\ queues[t] \in DOMAIN chan

C1_Witness == pc = "bookmarks" /\ Len(procs) = Len(ObjectOrder)

PutsOf(p) ==
    {e \in UNION {{<<q, i>> : i \in DOMAIN sent[q]} : q \in DOMAIN sent} :
        sent[e[1]][e[2]] = p}

\* C3: a worker puts at most one payload, and only on the queue main made
\* for its type; main takes at most one message from a queue; once main has
\* passed its get loop every worker has put exactly one payload, main has
\* taken exactly one message from each of the ten queues and no queue holds
\* an unread payload.
C3_OnePayloadPerQueue ==
    /\ \A p \in DOMAIN procs :
         /\ Cardinality(PutsOf(p)) <= 1
         /\ procs[p].state \in {"put", "exited"} => Cardinality(PutsOf(p)) = 1
    /\ \A q \in DOMAIN sent :
         /\ Len(sent[q]) <= 1
         /\ \A i \in DOMAIN sent[q] : procs[sent[q][i]].queue = q
         /\ Cardinality(Events("get", q)) <= 1
    /\ TreeLoaded /\ pc \in {"report", "exit", "exited"} =>
         /\ Len(chan) = Len(ObjectOrder)
         /\ \A p \in DOMAIN procs : Cardinality(PutsOf(p)) = 1
         /\ \A q \in DOMAIN chan :
              /\ chan[q] = <<>>
              /\ Len(sent[q]) = 1
              /\ Cardinality(Events("get", q)) = 1

C3_Witness == out # <<>> /\ \A q \in DOMAIN chan : chan[q] = <<>>

\* C4: main joins a worker only after it has taken the payload from that
\* worker's queue, and it writes the report only after it has taken all ten
\* payloads and joined all ten workers.
C4_GetBeforeJoinBeforeReport ==
    /\ \A t \in DOMAIN workers :
         \A j \in Events("join", workers[t]) :
            \E g \in Events("get", queues[t]) : g < j
    /\ \A r \in Reports :
         \A t \in ObjectTypes :
            /\ t \in DOMAIN workers
            /\ \E g \in Events("get", queues[t]) : g < r
            /\ \E j \in Events("join", workers[t]) : j < r
    /\ Len(out) = Cardinality(Reports)

C4_Witness == Reports # {} /\ pc = "exited"

\* C5 as stated: a run that loaded the tree and in which every worker put
\* its payload and exited ends with exactly one report written and status 0.
C5_OneReportAtExit ==
    (TreeLoaded /\ pc = "exited") => (status = 0 /\ Len(out) = 1)

\* C5: if the tree loads and no worker dies (the runs of FairSpec), main
\* eventually exits with status 0 having written exactly one report, or,
\* --yaml given and yaml not importable, no report and "YAML support not
\* available" on standard error.
C5_EventuallyExits ==
    (TreeLoaded /\ pc = "start") ~>
        /\ pc = "exited"
        /\ status = 0
        /\ \A p \in DOMAIN procs : procs[p].state = "exited"
        /\ \/ Len(out) = 1 /\ err = <<>>
           \/ out = <<>> /\ err = <<"YAML support not available">>

C5_Witness ==
    /\ pc = "exited"
    /\ status = 0
    /\ out = <<>>
    /\ err = <<"YAML support not available">>
    /\ \A p \in DOMAIN procs : procs[p].state = "exited"

\* C6: no worker has put its payload or returned, and examine_bookmarks has
\* not returned, while the database it opened is still open.
C6_ClosedBeforeDelivery ==
    /\ \A p \in DOMAIN procs :
         procs[p].state \in {"put", "exited"} => ~procs[p].db
    /\ facts # EmptyDict => ~main_db

\* C7: if the lock file existed when the run started, it exists when the
\* run has ended (main has exited and every worker process has ended).
C7_LockPersists ==
    (/\ pc = "exited"
     /\ \A p \in DOMAIN procs : procs[p].state \in {"exited", "crashed"}
     /\ lock0)
    => lock

\* The methods of the host's database API, and the host functions handed a
\* database, that leave the records as they are.
DbReadOnlyApi ==
    {"load", "close", "get_save_path", "surname_list", "get_event_from_handle",
     "probably_alive", "media_path_full",
     "get_number_of_people", "get_number_of_families", "get_number_of_events",
     "get_number_of_places", "get_number_of_media", "get_number_of_sources",
     "get_number_of_citations", "get_number_of_repositories",
     "get_number_of_notes", "get_number_of_tags",
     "iter_people", "iter_families", "iter_events", "iter_places", "iter_media",
     "iter_sources", "iter_citations", "iter_repositories", "iter_notes",
     "iter_tags",
     "get_bookmarks", "get_family_bookmarks", "get_event_bookmarks",
     "get_place_bookmarks", "get_media_bookmarks", "get_source_bookmarks",
     "get_citation_bookmarks", "get_repo_bookmarks", "get_note_bookmarks"}

\* C11: every database is loaded with mode DBMODE_R and update=False, every
\* call made on a database leaves its records as they are, every close is
\* made with update=False, and a function that opened a database has closed
\* it when it has delivered its result (a handler its payload,
\* examine_bookmarks and get_object_list their return value).
C11_ReadOnlyAndClosed ==
    /\ \A c \in db_calls :
         /\ c.method \in DbReadOnlyApi
         /\ c.method = "load" =>
               c.kwargs = <<<<"mode", DBMODE_R>>, <<"update", "False">>>>
         /\ c.method = "close" => c.kwargs = <<<<"update", "False">>>>
    /\ \A p \in DOMAIN procs :
         procs[p].state \in {"put", "exited"} =>
            DbClose(procs[p].target) \subseteq db_calls
    /\ facts # EmptyDict => DbClose("examine_bookmarks") \subseteq db_calls
    /\ TreeLoaded => DbClose("get_object_list") \subseteq db_calls

\* C17: once a worker has ended without a put, main writes no report and
\* does not exit: nothing is on standard output, main is before its report
\* and has no exit status, nothing was ever got from the dead worker's
\* queue, and main, once at that queue's get, stays there.
C17_BlockedByDeadWorker ==
    [][/\ \A p \in Crashed' :
             /\ out' = <<>>
             /\ pc' \notin {"report", "exit", "exited"}
             /\ status' = -1
             /\ \A i \in DOMAIN trace' :
                   trace'[i][1] = "get" => trace'[i][2] # procs'[p].queue
       /\ \A p \in Crashed :
             (pc = "get" /\ workers[obj_list[idx]] = p) =>
                (pc' = "get" /\ idx' = idx)]_vars

\* main has got the payloads of the queues before and is at the get of the
\* queue of a worker that died, every other worker having ended
C17_Witness ==
    /\ pc = "get"
    /\ idx > 1
    /\ workers[obj_list[idx]] \in Crashed
    /\ \A p \in DOMAIN procs : procs[p].state \in {"exited", "crashed"}

\* C18: when get_object_list raises TypeError main has printed the error on
\* standard error and exited with status 1, and there is no worker process,
\* no queue and no report; and main goes past get_object_list without a
\* tree in no other way.
C18_NoTreeNoWork ==
    /\ status = 1 =>
          /\ pc = "exited"
          /\ err = <<"Error: Problem finding and loading tree">>
          /\ procs = <<>> /\ workers = EmptyDict
          /\ chan = <<>> /\ queues = EmptyDict
          /\ out = <<>> /\ Reports = {}
    /\ (pc # "get_object_list" /\ ~TreeLoaded) => status = 1

C18_Witness == status = 1 /\ pc = "exited" /\ err # <<>> /\ ~TreeLoaded

(***************************************************************************)
(* A run of analyze_change calls taken alone.                              *)
(***************************************************************************)
\* A handler's loop over its table, as far as the list goes: last_changed = []
\* and analyze_change(last_changed, obj.handle, obj.change, max_length) per
\* object.  Handles are the objects' positions in the table.
ChangeInit ==
    /\ PipelineIdle
    /\ max_length \in 1..MaxLength
    /\ last_changed = <<>>
    /\ offered = <<>>
    /\ MediaIdle /\ FrameIdle /\ ResetIdle /\ CallIdle

AnalyzeChange ==
    /\ Len(offered) < MaxOffers
    /\ \E change \in 1..MaxChange :
         LET obj_handle == Len(offered) + 1
         IN  /\ last_changed' =
                    analyze_change(last_changed, obj_handle, change, max_length)
             /\ offered' = Append(offered, <<obj_handle, change>>)
    /\ UNCHANGED <<pipelinevars, max_length, media_run, frame, reset, call>>

SpecChange == ChangeInit /\ [][AnalyzeChange]_vars

Min(a, b) == IF a < b THEN a ELSE b

Listed == {last_changed[i] : i \in DOMAIN last_changed}

Offered == {offered[i] : i \in DOMAIN offered}

\* C8: after any sequence of analyze_change calls on an initially empty list
\* the list holds the max_length entries with the greatest change among the
\* pairs offered: min(k, max_length) of the offered pairs, none of them older
\* than an offered pair that is not listed.
C8_HoldsMostRecent ==
    /\ Listed \subseteq Offered
    /\ Cardinality(Listed) = Min(Len(offered), max_length)
    /\ \A e \in Listed : \A o \in Offered \ Listed : o[2] <= e[2]

\* C9: after k analyze_change calls on an initially empty list the list holds
\* exactly min(k, max_length) entries; so it never holds more than
\* max_length.
C9_Bounded ==
    /\ Len(last_changed) = Min(Len(offered), max_length)
    /\ Len(last_changed) <= max_length

C9_Witness ==
    /\ Len(offered) > max_length
    /\ Len(last_changed) = max_length
    /\ max_length > 1

\* C19: after every analyze_change call on a list that started empty the
\* list is in non-decreasing order of change, and entries of equal change
\* stand in the order in which they were offered (handles are the positions
\* in the order of offering).
C19_SortedInOfferOrder ==
    \A i, j \in DOMAIN last_changed :
       i < j =>
          /\ last_changed[i][2] <= last_changed[j][2]
          /\ last_changed[i][2] = last_changed[j][2] =>
                last_changed[i][1] < last_changed[j][1]

\* two entries of equal change listed, the later offered of them inserted
\* behind the other and in front of an entry of greater change, which the
\* length test then dropped
C19_Witness ==
    /\ max_length = 2
    /\ Len(offered) = 3
    /\ offered[1][2] > offered[2][2]
    /\ offered[2][2] = offered[3][2]
    /\ last_changed = <<offered[2], offered[3]>>

(***************************************************************************)
(* A run of examine_media taken alone: the media table of the tree, the    *)
(* files on disk, the loop over the table and the payload.                 *)
(***************************************************************************)
\* media.path values: none, relative to the media directory, absolute.
MediaPaths == {"", "a", "b", "/m/a"}

AbsolutePaths == {"/m/a"}

\* media_path_full(db, path): an absolute path as it is, any other joined
\* to the media directory of the tree.
media_path_full(path) ==
    IF path \in AbsolutePaths THEN path ELSE "/m/" \o path

FileNames == {media_path_full(path) : path \in MediaPaths \ {""}}

\* What os.path.getsize meets: a file it cannot read (it raises OSError) or
\* a file of some size in bytes.
FileStates ==
    {[readable |-> FALSE, size |-> 0]}
        \cup {[readable |-> TRUE, size |-> n] : n \in {700000, 1048576}}

\* One turn of the loop without the `not in not_found` test.
MediaTurnAppendsAlways(locals, media, files) ==
    IF media.path = ""
    THEN [locals EXCEPT !.no_path = @ + 1]
    ELSE LET fullname == media_path_full(media.path)
         IN  IF files[fullname].readable
             THEN [locals EXCEPT !.size_bytes = @ + files[fullname].size]
             ELSE [locals EXCEPT !.not_found = Append(@, media.path)]

\* One turn of `for media in db.iter_media()`, as far as the path goes.
MediaTurn(locals, media, files) ==
    IF media.path = ""
    THEN [locals EXCEPT !.no_path = @ + 1]
    ELSE LET fullname == media_path_full(media.path)
         IN  IF files[fullname].readable
             THEN [locals EXCEPT !.size_bytes = @ + files[fullname].size]
             ELSE IF \E i \in DOMAIN locals.not_found :
                        locals.not_found[i] = media.path
                  THEN locals
                  ELSE [locals EXCEPT !.not_found = Append(@, media.path)]

MediaTables ==
    UNION {[1..n -> [path : MediaPaths]] : n \in 0..MaxMedia}

MediaInit ==
    /\ PipelineIdle
    /\ ChangeIdle /\ FrameIdle /\ ResetIdle /\ CallIdle
    /\ \E table \in MediaTables, files \in [FileNames -> FileStates] :
         media_run = [ at     |-> "loop",
                       table  |-> table,
                       files  |-> files,
                       next   |-> 1,
                       locals |-> [size_bytes |-> 0, not_found |-> <<>>,
                                   no_path |-> 0],
                       queue  |-> <<>> ]

MediaLoop ==
    /\ media_run.at = "loop"
    /\ media_run.next <= Len(media_run.table)
    /\ media_run' =
         [media_run EXCEPT
            !.locals = MediaTurn(@, media_run.table[media_run.next],
                                 media_run.files),
            !.next = @ + 1]
    /\ UNCHANGED <<pipelinevars, changevars, frame, reset, call>>

\* megabytes = int(size_bytes / 1048576), the payload and queue.put(payload)
MediaPut ==
    /\ media_run.at = "loop"
    /\ media_run.next > Len(media_run.table)
    /\ LET megabytes == media_run.locals.size_bytes \div 1048576
           payload == [ media_total     |-> Len(media_run.table),
                        media_size      |-> megabytes,
                        media_no_path   |-> media_run.locals.no_path,
                        media_not_found |-> media_run.locals.not_found ]
       IN  media_run' = [media_run EXCEPT !.queue = Append(@, payload),
                                          !.at = "put"]
    /\ UNCHANGED <<pipelinevars, changevars, frame, reset, call>>

MediaNext == MediaLoop \/ MediaPut

SpecMedia == MediaInit /\ [][MediaNext]_vars

\* The media objects of the table whose file is missing / can be read.
Unreadable ==
    {i \in DOMAIN media_run.table :
        /\ media_run.table[i].path # ""
        /\ ~media_run.files[media_path_full(media_run.table[i].path)].readable}

Readable ==
    {i \in DOMAIN media_run.table :
        /\ media_run.table[i].path # ""
        /\ media_run.files[media_path_full(media_run.table[i].path)].readable}

RECURSIVE SizeOf(_)
SizeOf(objects) ==
    IF objects = {} THEN 0
    ELSE LET i == CHOOSE x \in objects : TRUE
         IN  media_run.files[media_path_full(media_run.table[i].path)].size
               + SizeOf(objects \ {i})

\* C10: a media object whose file size cannot be read does not stop
\* examine_media: every run goes on to the end of the table and puts one
\* payload, whose media_size counts the readable files only and whose
\* media_not_found lists the path of every unreadable object exactly once.
C10_MissingFileTolerated ==
    /\ media_run.at = "loop" => ENABLED MediaNext
    /\ media_run.at = "put" =>
         /\ Len(media_run.queue) = 1
         /\ LET payload == media_run.queue[1]
            IN  /\ payload.media_size = SizeOf(Readable) \div 1048576
                /\ {payload.media_not_found[i] : i \in DOMAIN payload.media_not_found}
                      = {media_run.table[i].path : i \in Unreadable}
                /\ \A i, j \in DOMAIN payload.media_not_found :
                      i # j => payload.media_not_found[i] # payload.media_not_found[j]

C10_Witness ==
    /\ media_run.at = "put"
    /\ Cardinality(Unreadable) = 2
    /\ Cardinality(Readable) = 1
    /\ Len(media_run.queue[1].media_not_found) = 1
    /\ media_run.queue[1].media_size = 1

(***************************************************************************)
(* A PrimaryGrampsFrame taken alone (src/view/frames/frame_primary.py):    *)
(* the object it displays, the host database, the menu actions and the     *)
(* callbacks of the host's editors.  The object is a family.               *)
(***************************************************************************)
\* What the host's editors and menus hand to the callbacks.
Attributes == {"a1", "a2"}

Urls == {"u1", "u2"}

Tags == {"t1", "t2"}

Children == {"c1"}

None == "None"

\* The objects a frame may be built for.
FrameObjects ==
    [ attribute_list : SUBSET {"a1"},
      urls           : SUBSET {"u1"},
      tag_list       : SUBSET {"t1"},
      child_ref_list : {{}} ]

FrameInit ==
    /\ PipelineIdle
    /\ ChangeIdle /\ MediaIdle /\ ResetIdle /\ CallIdle
    /\ \E obj \in FrameObjects, warnings \in BOOLEAN :
         frame = [ at       |-> "idle",
                   obj      |-> obj,       \* self.primary.obj
                   obj0     |-> obj,       \* ... when the frame was built
                   db       |-> obj,       \* the object as the database holds it
                   warnings |-> warnings,  \* options.global.enable-warnings
                   pending  |-> <<>>,      \* the action a dialog is asking about
                   response |-> "",        \* the answer the last step was given
                   dialogs  |-> 0,         \* confirmation dialogs raised
                   saved    |-> <<>>,      \* the save_object calls
                   txns     |-> <<>>,      \* the DbTxn transactions
                   shown    |-> <<>>,      \* the urls launched
                   ops      |-> 0 ]

\* GrampsFrame.save_object(obj, action_text=action): the object is committed
\* to the database.
save_object(f, action) ==
    [f EXCEPT !.db = f.obj, !.saved = Append(@, action)]

\* An operation has run to its end without a dialog.
Done(f) == [f EXCEPT !.ops = @ + 1, !.response = "", !.pending = <<>>,
                     !.at = "idle"]

\* GrampsConfig.confirm_action has raised its dialog: dialog.run() waits for
\* the answer.
Asking(f, action, arg) ==
    [f EXCEPT !.at = "confirm", !.pending = <<action, arg>>,
              !.dialogs = @ + 1, !.response = ""]

FrameOthers == <<pipelinevars, changevars, media_run, reset, call>>

\* PrimaryGrampsFrame.added_attribute(attribute): the callback of the
\* host's attribute editor, with the new attribute or nothing.
FrameAddedAttribute ==
    /\ frame.at = "idle"
    /\ frame.ops < MaxFrameOps
    /\ \E attribute \in (Attributes \ frame.obj.attribute_list) \cup {None} :
         frame' =
            IF attribute # None
            THEN Done(save_object(
                     [frame EXCEPT !.obj.attribute_list = @ \cup {attribute}],
                     "Added Attribute"))
            ELSE Done(frame)
    /\ UNCHANGED FrameOthers

\* The body of remove_attribute under `if self.confirm_action(..)`.
RemoveAttributeConfirmed(f, attribute) ==
    save_object([f EXCEPT !.obj.attribute_list = @ \ {attribute}],
                "Deleted Attribute")

\* PrimaryGrampsFrame.remove_attribute(_dummy_obj, attribute) up to the
\* answer of the dialog, if confirm_action raises one.
FrameRemoveAttribute ==
    /\ frame.at = "idle"
    /\ frame.ops < MaxFrameOps
    /\ \E attribute \in frame.obj.attribute_list \cup {None} :
         frame' =
            IF attribute = None THEN Done(frame)
            ELSE IF frame.warnings
                 THEN Asking(frame, "remove_attribute", attribute)
                 ELSE Done(RemoveAttributeConfirmed(frame, attribute))
    /\ UNCHANGED FrameOthers

\* add_tag without the save_object call.
FrameAddTagUnsaved ==
    /\ frame.at = "idle"
    /\ frame.ops < MaxFrameOps
    /\ \E handle \in Tags \cup {None} :
         frame' =
            IF handle = None THEN Done(frame)
            ELSE Done([frame EXCEPT !.obj.tag_list = @ \cup {handle}])
    /\ UNCHANGED FrameOthers

\* PrimaryGrampsFrame.add_tag(_dummy_obj, handle)
FrameAddTag ==
    /\ frame.at = "idle"
    /\ frame.ops < MaxFrameOps
    /\ \E handle \in Tags \cup {None} :
         frame' =
            IF handle = None THEN Done(frame)
            ELSE Done(save_object(
                     [frame EXCEPT !.obj.tag_list = @ \cup {handle}],
                     "Added Tag"))
    /\ UNCHANGED FrameOthers

\* PrimaryGrampsFrame.remove_tag(_dummy_obj, handle): obj.remove_tag(handle)
\* is true if the object had the tag.
FrameRemoveTag ==
    /\ frame.at = "idle"
    /\ frame.ops < MaxFrameOps
    /\ \E handle \in Tags \cup {None} :
         frame' =
            IF handle = None THEN Done(frame)
            ELSE IF handle \in frame.obj.tag_list
                 THEN Done(save_object(
                          [frame EXCEPT !.obj.tag_list = @ \ {handle}],
                          "Removed Tag"))
                 ELSE Done(frame)
    /\ UNCHANGED FrameOthers

\* PrimaryGrampsFrame.added_url(url): the callback of the host's url editor.
FrameAddedUrl ==
    /\ frame.at = "idle"
    /\ frame.ops < MaxFrameOps
    /\ \E url \in (Urls \ frame.obj.urls) \cup {None} :
         frame' =
            IF url = None THEN Done(frame)
            ELSE Done(save_object([frame EXCEPT !.obj.urls = @ \cup {url}],
                                  "Added Url"))
    /\ UNCHANGED FrameOthers

\* PrimaryGrampsFrame.edited_url(url): the editor has changed the url in
\* place; the callback saves the object.
FrameEditedUrl ==
    /\ frame.at = "idle"
    /\ frame.ops < MaxFrameOps
    /\ \E url \in frame.obj.urls \cup {None} :
         frame' =
            IF url = None THEN Done(frame)
            ELSE Done(save_object(frame, "Updated Url"))
    /\ UNCHANGED FrameOthers

\* The body of remove_url under `if self.confirm_action(..)`:
\* obj.remove_url(url) is true if the object had the url.
RemoveUrlConfirmed(f, url) ==
    IF url \in f.obj.urls
    THEN save_object([f EXCEPT !.obj.urls = @ \ {url}], "Deleted Url")
    ELSE f

\* PrimaryGrampsFrame.remove_url(_dummy_obj, url) up to the answer of the
\* dialog, if confirm_action raises one.
FrameRemoveUrl ==
    /\ frame.at = "idle"
    /\ frame.ops < MaxFrameOps
    /\ \E url \in frame.obj.urls \cup {None} :
         frame' =
            IF url = None THEN Done(frame)
            ELSE IF frame.warnings
                 THEN Asking(frame, "remove_url", url)
                 ELSE Done(RemoveUrlConfirmed(frame, url))
    /\ UNCHANGED FrameOthers

\* GrampsConfig.confirm_action from response = dialog.run() on, and the rest
\* of the operation that asked.
FrameDialogResponse ==
    /\ frame.at = "confirm"
    /\ \E response \in {"OK", "CANCEL"} :
         LET arg == frame.pending[2]
             after ==
                IF response # "OK" THEN frame
                ELSE IF frame.pending[1] = "remove_attribute"
                     THEN RemoveAttributeConfirmed(frame, arg)
                     ELSE RemoveUrlConfirmed(frame, arg)
         IN  frame' = [Done(after) EXCEPT !.response = response]
    /\ UNCHANGED FrameOthers

\* PrimaryGrampsFrame.launch_url(_dummy_obj, url)
FrameLaunchUrl ==
    /\ frame.at = "idle"
    /\ frame.ops < MaxFrameOps
    /\ \E url \in frame.obj.urls \cup {None} :
         frame' =
            IF url = None THEN Done(frame)
            ELSE Done([frame EXCEPT !.shown = Append(@, url)])
    /\ UNCHANGED FrameOthers

\* PrimaryGrampsFrame.added_child(child_ref, child, family_handle): the
\* family is fetched from the database, changed and committed, with the
\* child, in one transaction.
FrameAddedChild ==
    /\ frame.at = "idle"
    /\ frame.ops < MaxFrameOps
    /\ \E child \in Children \ frame.db.child_ref_list :
         frame' =
            Done([frame EXCEPT
                    !.db.child_ref_list = @ \cup {child},
                    !.txns = Append(@, [ action  |-> "Added Child",
                                         commits |-> <<"commit_family",
                                                       "commit_person">> ])])
    /\ UNCHANGED FrameOthers

FrameNext ==
    \/ FrameAddedAttribute
    \/ FrameRemoveAttribute
    \/ FrameAddTag
    \/ FrameRemoveTag
    \/ FrameAddedUrl
    \/ FrameEditedUrl
    \/ FrameRemoveUrl
    \/ FrameDialogResponse
    \/ FrameLaunchUrl
    \/ FrameAddedChild

SpecFrame == FrameInit /\ [][FrameNext]_vars

C14_RemovalConfirmed ==
    [][frame.warnings =>
          /\ (\/ frame.obj.attribute_list \ frame'.obj.attribute_list # {}
              \/ frame.obj.urls \ frame'.obj.urls # {}
              \/ frame.obj.tag_list \ frame'.obj.tag_list # {})
                => /\ frame.at = "confirm"
                   /\ frame.dialogs > 0
                   /\ frame'.response = "OK"
          /\ frame'.response = "CANCEL" =>
                /\ frame'.obj = frame.obj
                /\ frame'.db = frame.db]_vars

(***************************************************************************)
(* A ConfigReset taken alone (src/view/common/common_utils.py): the button *)
(* of a page of the configuration dialog, the configuration and the        *)
(* confirmation dialog.  A string is the sequence of its characters, the   *)
(* text "options." being one of them.                                      *)
(***************************************************************************)
OptionsDot == "options."

\* The options registered, with their default values.
OptionDefaults ==
    (<<OptionsDot, "a", ".", "x">> :> FALSE) @@
    (<<OptionsDot, "a", ".", "y">> :> TRUE) @@
    (<<OptionsDot, "b", ".", "x">> :> FALSE)

OptionNames == DOMAIN OptionDefaults

\* The space a ConfigReset is built for: the options of a page.
OptionSpaces == {<<OptionsDot, "a">>, <<OptionsDot, "b">>}

\* str.replace("options.", "")
Replace(string) == SelectSeq(string, LAMBDA c : c # OptionsDot)

\* string[:length]
Slice(string, length) ==
    SubSeq(string, 1, IF length < Len(string) THEN length ELSE Len(string))

\* ConfigReset.get_option_space: config.get_section_settings("options") are
\* the names behind "options.".
get_option_space(r) ==
    LET settings == {Tail(option) : option \in DOMAIN r.config}
        prefix == Replace(r.space)
        prefix_length == Len(prefix)
    IN  {<<OptionsDot>> \o setting :
            setting \in {x \in settings : Slice(x, prefix_length) = prefix}}

ResetOthers == <<pipelinevars, changevars, media_run, frame, call>>

\* ConfigReset.__init__(dialog, grstate, space) and the configuration the
\* dialog was opened on.
ResetInit ==
    /\ PipelineIdle
    /\ ChangeIdle /\ MediaIdle /\ FrameIdle /\ CallIdle
    /\ \E space \in OptionSpaces, config \in [OptionNames -> BOOLEAN] :
         reset = [ at       |-> "idle",
                   space0   |-> space,   \* the space argument
                   space    |-> space,   \* self.space
                   config   |-> config,  \* self.config
                   selected |-> <<>>,    \* the space the last answer chose
                   response |-> "",      \* the last answer
                   done     |-> FALSE,   \* self.dialog.done(None, None)
                   clicks   |-> 0,
                   changes  |-> 0 ]

\* The user changes an option in the open configuration dialog.
ResetUserSets ==
    /\ reset.at = "idle"
    /\ reset.changes < MaxChanges
    /\ \E option \in OptionNames :
         reset' = [reset EXCEPT !.config[option] = ~@, !.changes = @ + 1,
                                !.response = ""]
    /\ UNCHANGED ResetOthers

\* The button is clicked: reset_option_space, confirm_reset up to
\* response = dialog.run().
ResetClicked ==
    /\ reset.at = "idle"
    /\ reset.clicks < MaxClicks
    /\ reset' = [reset EXCEPT !.at = "confirm", !.clicks = @ + 1,
                              !.response = ""]
    /\ UNCHANGED ResetOthers

\* confirm_reset from the answer of the dialog on, and the rest of
\* reset_option_space.
ResetAnswered ==
    /\ reset.at = "confirm"
    /\ \E response \in {"OK", "CANCEL"}, all_button \in BOOLEAN :
         LET selected == IF all_button THEN <<OptionsDot>> ELSE reset.space0
             confirmed ==
                [reset EXCEPT !.space = IF all_button THEN <<OptionsDot>> ELSE @]
             options == get_option_space(confirmed)
             reset_option ==
                \E option \in options :
                    reset.config[option] # OptionDefaults[option]
         IN  reset' =
                IF response = "OK"
                THEN [confirmed EXCEPT
                        !.config = [option \in DOMAIN reset.config |->
                                       IF option \in options
                                       THEN OptionDefaults[option]
                                       ELSE reset.config[option]],
                        !.done = reset_option,
                        !.at = IF reset_option THEN "done" ELSE "idle",
                        !.selected = selected,
                        !.response = response]
                ELSE [reset EXCEPT !.at = "idle", !.selected = selected,
                                   !.response = response]
    /\ UNCHANGED ResetOthers

ResetNext == ResetUserSets \/ ResetClicked \/ ResetAnswered

SpecReset == ResetInit /\ [][ResetNext]_vars

\* An option is in a space: its name is the space's and a further part.
InSpace(option, space) ==
    \/ space = <<OptionsDot>>
    \/ /\ Len(option) > Len(space)
       /\ SubSeq(option, 1, Len(space)) = space
       /\ option[Len(space) + 1] = "."

\* C15: when the confirmation is answered OK, afterwards every option of the
\* space selected in it (the page's, or all options if the box is ticked)
\* holds its default and every other option is as before, and the
\* configuration dialog is closed if and only if one of the options of the
\* space was not at its default; when it is cancelled no option changes and
\* the dialog is not closed.
C15_ResetsSelectedSpace ==
    [][/\ reset'.response = "OK" =>
             /\ \A option \in OptionNames :
                   IF InSpace(option, reset'.selected)
                   THEN reset'.config[option] = OptionDefaults[option]
                   ELSE reset'.config[option] = reset.config[option]
             /\ reset'.done <=>
                   \E option \in OptionNames :
                      /\ InSpace(option, reset'.selected)
                      /\ reset.config[option] # OptionDefaults[option]
       /\ reset'.response = "CANCEL" =>
             /\ reset'.config = reset.config
             /\ ~reset'.done]_vars

(***************************************************************************)
(* get_object_list taken alone: a tree given by the record counts of its   *)
(* ten tables, and the call.                                               *)
(***************************************************************************)
CallOthers == <<pipelinevars, changevars, media_run, frame, reset>>

ObjectListInit ==
    /\ PipelineIdle
    /\ ChangeIdle /\ MediaIdle /\ FrameIdle /\ ResetIdle
    /\ \E counts \in [ObjectTypes -> 0..MaxCount] :
         call = [ at     |-> "called",
                  counts |-> counts,   \* db.get_number_of_*()
                  total  |-> 0,
                  names  |-> <<>> ]

\* total, obj_list = get_object_list(args.tree_name)
ObjectListReturn ==
    /\ call.at = "called"
    /\ call' = [call EXCEPT !.at = "returned",
                            !.total = get_object_list(call.counts).total,
                            !.names = get_object_list(call.counts).names]
    /\ UNCHANGED CallOthers

SpecObjectList == ObjectListInit /\ [][ObjectListReturn]_vars

RECURSIVE SumOver(_, _)
SumOver(counts, types) ==
    IF types = {} THEN 0
    ELSE LET t == CHOOSE x \in types : TRUE
         IN  counts[t] + SumOver(counts, types \ {t})

\* C13: the list get_object_list returns is a permutation of the ten type
\* names in non-increasing order of record count, types of equal count stand
\* in declaration order, and the total returned is the sum of the ten counts.
C13_DescendingStable ==
    call.at = "returned" =>
        /\ Len(call.names) = Len(ObjectOrder)
        /\ {call.names[i] : i \in DOMAIN call.names} = ObjectTypes
        /\ \A i, j \in DOMAIN call.names :
              i < j =>
                 /\ call.counts[call.names[i]] >= call.counts[call.names[j]]
                 /\ call.counts[call.names[i]] = call.counts[call.names[j]] =>
                       Position(call.names[i]) < Position(call.names[j])
        /\ call.total = SumOver(call.counts, ObjectTypes)

C13_Witness ==
    /\ call.at = "returned"
    /\ call.names[1] = "Family"
    /\ call.names[2] = "Tag"
    /\ call.names[3] = "Person"
    /\ call.total = 2

(***************************************************************************)
(* find_modified_secondary_object taken alone.  A secondary object is a    *)
(* record of the version it belongs to, its place there (its identity) and *)
(* what serialize() returns for it; a primary object holds a primary name, *)
(* alternate names and attributes.                                         *)
(***************************************************************************)
MaxSecondary == 3

Serialized == {"s1", "s2"}

SecondaryTypes == {"Name", "Attribute"}

SecondaryObjects(version, serialized) ==
    [i \in 1..Len(serialized) |->
        [version |-> version, id |-> i, serialize |-> serialized[i]]]

\* a primary object whose secondary objects of the given type serialize as
\* given, in that order
PrimaryObject(version, secondary_type, serialized) ==
    IF secondary_type = "Name"
    THEN [ primary_name    |-> Head(SecondaryObjects(version, serialized)),
           alternate_names |-> Tail(SecondaryObjects(version, serialized)),
           attribute_list  |-> <<>> ]
    ELSE [ primary_name    |-> [version |-> version, id |-> 0, serialize |-> "s1"],
           alternate_names |-> <<>>,
           attribute_list  |-> SecondaryObjects(version, serialized) ]

\* None where a secondary object is expected: a record, to be comparable
\* with the objects
NoneObject == [version |-> None, id |-> 0, serialize |-> None]

get_secondary_object_list(obj, secondary_type) ==
    IF secondary_type = "Name"
    THEN <<obj.primary_name>> \o obj.alternate_names
    ELSE IF secondary_type = "Attribute"
    THEN obj.attribute_list
    ELSE None

\* a mutant of the inner loop: every equal-serialized object is removed
RemoveAllEqual(new_list, obj_serialized) ==
    SelectSeq(new_list, LAMBDA new_obj : new_obj.serialize # obj_serialized)

\* for new_obj in new_list: if new_obj.serialize() == obj_serialized:
\*     new_list.remove(new_obj); break
RemoveFirstEqual(new_list, obj_serialized) ==
    LET equal == {i \in DOMAIN new_list : new_list[i].serialize = obj_serialized}
    IN  IF equal = {} THEN new_list
        ELSE LET first == CHOOSE i \in equal : \A j \in equal : i <= j
             IN  SubSeq(new_list, 1, first - 1)
                    \o SubSeq(new_list, first + 1, Len(new_list))

\* for obj in old_list: ...
RECURSIVE RemoveMatched(_, _)
RemoveMatched(old_list, new_list) ==
    IF old_list = <<>> THEN new_list
    ELSE RemoveMatched(Tail(old_list),
                       RemoveFirstEqual(new_list, Head(old_list).serialize))

find_modified_secondary_object(secondary_type, old_obj, updated_obj) ==
    LET old_list == get_secondary_object_list(old_obj, secondary_type)
        new_list == get_secondary_object_list(updated_obj, secondary_type)
        left     == RemoveMatched(old_list, new_list)
    IN  IF Len(left) = 1 THEN left[1] ELSE NoneObject

SecondaryInit ==
    /\ PipelineIdle
    /\ ChangeIdle /\ MediaIdle /\ FrameIdle /\ ResetIdle
    /\ \E secondary_type \in SecondaryTypes :
       \E n, m \in 0..MaxSecondary :
       \E old \in [1..n -> Serialized], new \in [1..m -> Serialized] :
         \* an object always has a primary name
         /\ secondary_type = "Name" => n > 0 /\ m > 0
         /\ call = [ at             |-> "find_modified_secondary_object",
                     secondary_type |-> secondary_type,
                     old_obj        |-> PrimaryObject("old", secondary_type, old),
                     updated_obj    |-> PrimaryObject("updated", secondary_type, new),
                     result         |-> NoneObject ]

SecondaryReturn ==
    /\ call.at = "find_modified_secondary_object"
    /\ call' = [call EXCEPT
                  !.at = "found",
                  !.result = find_modified_secondary_object(
                                 call.secondary_type, call.old_obj, call.updated_obj)]
    /\ UNCHANGED CallOthers

SpecSecondary == SecondaryInit /\ [][SecondaryReturn]_vars

\* the secondary objects of a version of the called object
SecondaryOf(obj) == get_secondary_object_list(obj, call.secondary_type)

\* how many of the objects of a list serialize as given
Equal(list, serialized) ==
    Cardinality({i \in DOMAIN list : list[i].serialize = serialized})

\* the serialized forms the updated version holds more often than the old
Unmatched ==
    {serialized \in Serialized :
        Equal(SecondaryOf(call.updated_obj), serialized)
            > Equal(SecondaryOf(call.old_obj), serialized)}

\* the updated version holds exactly one object more than the old version
\* can match, duplicates counted
OneUnmatched ==
    /\ Cardinality(Unmatched) = 1
    /\ \A serialized \in Unmatched :
          Equal(SecondaryOf(call.updated_obj), serialized)
             = Equal(SecondaryOf(call.old_obj), serialized) + 1

\* C16: find_modified_secondary_object returns an object exactly when the
\* updated version holds one secondary object more than the old version can
\* match one for one by serialized form; the object returned belongs to the
\* updated version and has that unmatched form; otherwise it returns None.
C16_FindsTheUnmatched ==
    call.at = "found" =>
        /\ call.result # NoneObject <=> OneUnmatched
        /\ call.result # NoneObject =>
              /\ \E i \in DOMAIN SecondaryOf(call.updated_obj) :
                    call.result = SecondaryOf(call.updated_obj)[i]
              /\ call.result.serialize \in Unmatched

\* one of three attributes changed into a duplicate of the two others
C16_Witness ==
    /\ call.at = "found"
    /\ call.secondary_type = "Attribute"
    /\ Len(call.old_obj.attribute_list) = 3
    /\ call.old_obj.attribute_list[1].serialize = "s1"
    /\ call.old_obj.attribute_list[2].serialize = "s2"
    /\ call.old_obj.attribute_list[3].serialize = "s1"
    /\ Len(call.updated_obj.attribute_list) = 3
    /\ \A i \in 1..3 : call.updated_obj.attribute_list[i].serialize = "s1"
    /\ call.result # NoneObject
    /\ call.result.serialize = "s1"

(***************************************************************************)
(* fold taken alone and as the code runs it: one turn of the loop over the *)
(* keys of two per step, on two dicts of sections.  one[key] is the very   *)
(* dict two[key] after one.update({key: two[key]}): `shared` holds the     *)
(* keys of which that is so, and an update of such a section would show in *)
(* two.                                                                    *)
(***************************************************************************)
FoldKeys == {"k1", "k2"}

FoldSubkeys == {"a", "b"}

FoldValues == {"v1", "v2"}

FoldSections == UNION {[subkeys -> FoldValues] : subkeys \in SUBSET FoldSubkeys}

FoldDicts == UNION {[keys -> FoldSections] : keys \in SUBSET FoldKeys}

\* one[key].update(two[key]): the value of two put over that of one
FoldSectionTwoWins(section_one, section_two, subkeys) ==
    [subkey \in (DOMAIN section_one) \cup subkeys |->
        IF subkey \in subkeys THEN section_two[subkey] ELSE section_one[subkey]]

\* for subkey in two[key]: if subkey not in one[key]:
\*     one[key].update({subkey: two[key][subkey]})
RECURSIVE FoldSection(_, _, _)
FoldSection(section_one, section_two, subkeys) ==
    IF subkeys = {} THEN section_one
    ELSE LET subkey == CHOOSE x \in subkeys : TRUE
         IN  FoldSection(IF subkey \notin DOMAIN section_one
                         THEN Update(section_one, subkey, section_two[subkey])
                         ELSE section_one,
                         section_two, subkeys \ {subkey})

FoldInit ==
    /\ PipelineIdle
    /\ ChangeIdle /\ MediaIdle /\ FrameIdle /\ ResetIdle
    /\ \E one \in FoldDicts, two \in FoldDicts :
         call = [ at     |-> "fold",
                  one0   |-> one,
                  two0   |-> two,
                  one    |-> one,
                  two    |-> two,
                  keys   |-> DOMAIN two,    \* two.keys() not yet visited
                  shared |-> {} ]

\* one turn of: for key in two.keys()
FoldKey ==
    /\ call.at = "fold"
    /\ \E key \in call.keys :
         IF key \notin DOMAIN call.one
         THEN call' = [call EXCEPT !.one = Update(call.one, key, call.two[key]),
                                   !.shared = @ \cup {key},
                                   !.keys = @ \ {key}]
         ELSE LET section == FoldSection(call.one[key], call.two[key],
                                         DOMAIN call.two[key])
              IN  call' = [call EXCEPT
                             !.one = Update(call.one, key, section),
                             !.two = IF key \in call.shared
                                     THEN Update(call.two, key, section)
                                     ELSE @,
                             !.keys = @ \ {key}]
    /\ UNCHANGED CallOthers

\* the loop has visited every key of two
FoldReturn ==
    /\ call.at = "fold"
    /\ call.keys = {}
    /\ call' = [call EXCEPT !.at = "folded"]
    /\ UNCHANGED CallOthers

FoldNext == FoldKey \/ FoldReturn

SpecFold == FoldInit /\ [][FoldNext]_vars

\* C20: fold changes one only by adding: at every turn every key and every
\* (key, subkey) value one had is there unchanged; when fold returns, one
\* holds the keys of both, a key that only two had with two's section, in a
\* section both had the subkeys of both, those missing from one with two's
\* value, and two is as it was.  The dict is the one the pipeline's fold
\* operator gives.
C20_FoldOnlyAdds ==
    /\ DOMAIN call.one0 \subseteq DOMAIN call.one
    /\ \A key \in DOMAIN call.one0 :
          /\ DOMAIN call.one0[key] \subseteq DOMAIN call.one[key]
          /\ \A subkey \in DOMAIN call.one0[key] :
                call.one[key][subkey] = call.one0[key][subkey]
    /\ call.at = "folded" =>
          /\ DOMAIN call.one = (DOMAIN call.one0) \cup (DOMAIN call.two0)
          /\ \A key \in (DOMAIN call.two0) \ (DOMAIN call.one0) :
                call.one[key] = call.two0[key]
          /\ \A key \in (DOMAIN call.one0) \ (DOMAIN call.two0) :
                call.one[key] = call.one0[key]
          /\ \A key \in (DOMAIN call.one0) \cap (DOMAIN call.two0) :
                /\ DOMAIN call.one[key] =
                      (DOMAIN call.one0[key]) \cup (DOMAIN call.two0[key])
                /\ \A subkey \in (DOMAIN call.two0[key]) \ (DOMAIN call.one0[key]) :
                      call.one[key][subkey] = call.two0[key][subkey]
          /\ call.two = call.two0
          /\ call.one = fold(call.one0, call.two0)

\* both hold k1.a with different values, two alone holds k1.b and k2
C20_Witness ==
    /\ call.at = "folded"
    /\ DOMAIN call.one0 = {"k1"}
    /\ DOMAIN call.two0 = {"k1", "k2"}
    /\ DOMAIN call.one0["k1"] = {"a"}
    /\ DOMAIN call.two0["k1"] = {"a", "b"}
    /\ call.one0["k1"]["a"] # call.two0["k1"]["a"]
    /\ call.one["k1"]["a"] = call.one0["k1"]["a"]
    /\ call.one["k1"]["b"] = call.two0["k1"]["b"]
    /\ call.one["k2"] = call.two0["k2"]

(***************************************************************************)
(* The folds of main taken alone: facts, and the dicts folded into it one  *)
(* after the other, each kept as the object it is now (args) and as it was *)
(* when it was passed (args0).  one.update({key: two[key]}) puts two's own *)
(* section dict into one: alias[key] is the place in args of the dict      *)
(* whose section one[key] is, 0 when the section is one's own, and an      *)
(* update of one[key] is an update of that dict's section.                 *)
(***************************************************************************)
MaxFolds == 2

\* which subkeys each section of a dict holds
FoldShapes == UNION {[keys -> SUBSET FoldSubkeys] : keys \in SUBSET FoldKeys}

\* the dict of a shape, every value naming the dict it was built in
FoldDict(shape, v) == [key \in DOMAIN shape |-> DictOf(shape[key], v)]

\* one after fold(one, two)
FoldedOne(one, two) ==
    [key \in (DOMAIN one) \cup (DOMAIN two) |->
        IF key \notin DOMAIN one THEN two[key]
        ELSE IF key \notin DOMAIN two THEN one[key]
        ELSE FoldSection(one[key], two[key], DOMAIN two[key])]

FoldsInit ==
    /\ PipelineIdle
    /\ ChangeIdle /\ MediaIdle /\ FrameIdle /\ ResetIdle
    /\ \E shape \in FoldShapes :
         call = [ at    |-> "folds",
                  one   |-> FoldDict(shape, "v0"),    \* facts = examine_bookmarks(args)
                  args  |-> <<>>,
                  args0 |-> <<>>,
                  alias |-> [key \in DOMAIN shape |-> 0] ]

\* result_set = queues[obj_type].get(); fold(facts, result_set)
FoldsCall ==
    /\ call.at = "folds"
    /\ Len(call.args) < MaxFolds
    /\ \E shape \in FoldShapes :
         LET place == Len(call.args) + 1
             two == FoldDict(shape, IF place = 1 THEN "v1" ELSE "v2")
             one == FoldedOne(call.one, two)
         IN  call' = [call EXCEPT
                        !.one = one,
                        \* a section of an earlier dict that one holds is
                        \* the section one has now
                        !.args = Append(
                            [i \in DOMAIN call.args |->
                                [key \in DOMAIN call.args[i] |->
                                    IF key \in DOMAIN call.alias /\ call.alias[key] = i
                                    THEN one[key]
                                    ELSE call.args[i][key]]],
                            two),
                        !.args0 = Append(@, two),
                        !.alias = [key \in DOMAIN one |->
                                      IF key \in DOMAIN call.one
                                      THEN call.alias[key]
                                      ELSE place]]
    /\ UNCHANGED CallOthers

SpecFolds == FoldsInit /\ [][FoldsCall]_vars

\* C21: no dict folded into facts is changed, by its own fold or by a later
\* one: every dict passed is as it was when it was passed.
C21_SecondArgumentUnchanged == call.args = call.args0

====
